---- MODULE Spec2Model ----
(***************************************************************************)
(* PosturePal: the posture calibrator and the detection loop of            *)
(* pose_webcam.py, the monitor watchdog of monitor_detector.py, and the    *)
(* configuration manager and menu bar of config_manager.py and             *)
(* menu_bar_controller.py.                                                 *)
(*                                                                         *)
(* Time is counted in ticks of half a second (TicksPerSecond ticks to a    *)
(* second), so that the 0.5 s pause of safe_speak is one tick.  Landmark   *)
(* coordinates, measurements and thresholds are exact rationals [n, d].    *)
(***************************************************************************)
EXTENDS Integers, Sequences, FiniteSets, TLC

VARIABLES
    \* the wall clock, time.time(), in ticks
    now,
    \* PostureCalibrator (pose_webcam.py)
    good_examples, bad_examples, personalized_thresholds,
    calibration_file, calib_result, calib_op,
    \* run_normal_mode (pose_webcam.py)
    config, frame_count, voice_busy, last_voice_time,
    bad_posture_start_time, last_announcement_time,
    sitting_start_time, sitting_alerted, last_pose_time, sitting_elapsed,
    window_should_be_visible, toggle_window_txt, posture_status,
    \* what the last iteration of the loop did, and the landmarks and the
    \* announcements of the last processed frame
    loop_step, pose_landmarks, frame,
    \* history: the start of the current unbroken run of bad-posture frames,
    \* whether an earlier frame of the run reached the threshold, the time of
    \* the last frame of the run that called safe_speak with 'Please sit up
    \* straight!', and whether safe_speak was called with 'stand up' since the
    \* sitting timer last started
    bad_run_start, bad_run_reached, bad_run_announced, stand_up_asked,
    \* MonitorDetector (monitor_detector.py): its fields, where run() is, the
    \* children that are running and the number of children started so far
    running, monitor_on, posture_process, detector_pc, alive, next_pid,
    \* what the last iteration of the monitoring loop did
    iteration,
    \* config_manager.py and menu_bar_controller.py: config.json, whether the
    \* LaunchAgent plist exists, whether pose_webcam.py is running, the last
    \* notification of the menu bar, and what the last operation was
    config_json, plist_exists, detection_running, notification, manager_op,
    \* the last call of load_config: the module called and what it returned
    config_loaded,
    \* the toggle-file handshake: where toggle_camera_window of the menu bar
    \* is and what it returned, where the toggle section of the detection
    \* loop is, the number of requests made, the request whose file the loop
    \* has seen, and the requests for which the loop toggled the window
    menu_pc, menu_returned, toggle_pc, requests, seen_request, toggled_for

calibVars == <<good_examples, bad_examples, personalized_thresholds,
               calibration_file, calib_result, calib_op>>

loopVars == <<config, frame_count, voice_busy, last_voice_time,
              bad_posture_start_time, last_announcement_time,
              sitting_start_time, sitting_alerted, last_pose_time, sitting_elapsed,
              window_should_be_visible, toggle_window_txt, posture_status,
              loop_step, pose_landmarks, frame,
              bad_run_start, bad_run_reached, bad_run_announced, stand_up_asked>>

monitorVars == <<running, monitor_on, posture_process, detector_pc, alive,
                 next_pid, iteration>>

managerVars == <<config_json, plist_exists, detection_running, notification,
                 manager_op,
                 config_loaded>>

toggleVars == <<menu_pc, menu_returned, toggle_pc, requests, seen_request,
                toggled_for>>

vars == <<now, calibVars, loopVars, monitorVars, managerVars, toggleVars>>

-----------------------------------------------------------------------------
(* Bounds of the model *)

\* examples of each kind the calibration session collects
MaxExamples == 3

(* Units *)
TicksPerSecond == 2
\* the clock value at which a run starts: time.time() is far from 0
Epoch == 100

-----------------------------------------------------------------------------
(* Exact rational arithmetic for the floats of the program *)

Abs(x) == IF x < 0 THEN -x ELSE x

RECURSIVE GCD(_, _)
GCD(a, b) == IF b = 0 THEN a ELSE GCD(b, a % b)

\* the rational n/d (d > 0) in lowest terms
Rat(n, d) == LET g == GCD(Abs(n), d) IN [n |-> n \div g, d |-> d \div g]

RAdd(a, b) == Rat(a.n * b.d + b.n * a.d, a.d * b.d)
RSub(a, b) == Rat(a.n * b.d - b.n * a.d, a.d * b.d)
RDivInt(a, k) == Rat(a.n, a.d * k)
RLess(a, b) == a.n * b.d < b.n * a.d

RECURSIVE RSum(_)
RSum(s) == IF s = <<>> THEN Rat(0, 1) ELSE RAdd(Head(s), RSum(Tail(s)))

\* np.mean of a non-empty list
np_mean(s) == RDivInt(RSum(s), Len(s))

-----------------------------------------------------------------------------
(* Landmarks: the y coordinates the pose model reports, in tenths of the   *)
(* frame height (0 = top of the frame, 1 = bottom)                         *)

Landmarks(left, right, nose) ==
    [LEFT_SHOULDER |-> Rat(left, 10), RIGHT_SHOULDER |-> Rat(right, 10),
     NOSE |-> Rat(nose, 10)]

\* upright; head sunk between the shoulders; nose low in the frame; both
LandmarkSets == { Landmarks(6, 6, 3), Landmarks(5, 6, 5),
                  Landmarks(10, 10, 8), Landmarks(8, 8, 8) }

\* the poses in front of the camera while the detection loop runs
LoopPoses == { Landmarks(6, 6, 3), Landmarks(5, 6, 5) }

\* the poses held in front of the camera during a calibration session
CalibrationPoses == { Landmarks(6, 6, 3), Landmarks(8, 8, 8) }

-----------------------------------------------------------------------------
(* PostureCalibrator *)

DefaultThresholds ==
    [head_height_threshold |-> Rat(1, 10), nose_height_threshold |-> Rat(7, 10)]

calculate_measurements(landmarks) ==
    LET avg_shoulder_y ==
            RDivInt(RAdd(landmarks.LEFT_SHOULDER, landmarks.RIGHT_SHOULDER), 2)
    IN  [head_height |-> RSub(avg_shoulder_y, landmarks.NOSE),
         nose_height_in_frame |-> landmarks.NOSE]

is_bad_pose_and(landmarks, thresholds) ==
    LET measurements == calculate_measurements(landmarks)
    IN  /\ RLess(measurements.head_height, thresholds.head_height_threshold)
        /\ RLess(thresholds.nose_height_threshold, measurements.nose_height_in_frame)

is_bad_pose(landmarks, thresholds) ==
    LET measurements == calculate_measurements(landmarks)
        head_height_bad ==
            RLess(measurements.head_height, thresholds.head_height_threshold)
        nose_height_bad ==
            RLess(thresholds.nose_height_threshold, measurements.nose_height_in_frame)
    IN  head_height_bad \/ nose_height_bad

\* the example add_example appends: the measurements and time.time()
new_example(landmarks, t) ==
    [measurements |-> calculate_measurements(landmarks),
     timestamp |-> Rat(t, TicksPerSecond)]

HeadHeights(examples) ==
    [i \in 1..Len(examples) |-> examples[i].measurements.head_height]
NoseHeights(examples) ==
    [i \in 1..Len(examples) |-> examples[i].measurements.nose_height_in_frame]

\* the midpoint between the two distributions
midpoint_sum_only(good, bad) == RAdd(np_mean(good), np_mean(bad))

midpoint(good, bad) == RDivInt(RAdd(np_mean(good), np_mean(bad)), 2)

\* calculate_personalized_thresholds: the return value and the thresholds
calculate_personalized_thresholds(good, bad, thresholds) ==
    IF Len(good) < 3 \/ Len(bad) < 3
    THEN [ret |-> FALSE, thresholds |-> thresholds]
    ELSE [ret |-> TRUE,
          thresholds |->
              [k \in DOMAIN thresholds |->
                  IF k = "head_height_threshold"
                  THEN midpoint(HeadHeights(good), HeadHeights(bad))
                  ELSE IF k = "nose_height_threshold"
                  THEN midpoint(NoseHeights(good), NoseHeights(bad))
                  ELSE thresholds[k]]]

-----------------------------------------------------------------------------
(* The calibration file: json.dump writes the calibrator as a JSON         *)
(* document, json.load parses one.  A JSON number is its decimal text,     *)
(* which repr() writes so that it reads back as the same float; an array   *)
(* is a sequence and an object a function of its keys.                     *)

json_number(x) == [json |-> "number", num |-> x.n, den |-> x.d]
parse_number(j) == Rat(j.num, j.den)

json_example(ex) ==
    [measurements |->
        [head_height |-> json_number(ex.measurements.head_height),
         nose_height_in_frame |-> json_number(ex.measurements.nose_height_in_frame)],
     timestamp |-> json_number(ex.timestamp)]
parse_example(j) ==
    [measurements |->
        [head_height |-> parse_number(j.measurements.head_height),
         nose_height_in_frame |-> parse_number(j.measurements.nose_height_in_frame)],
     timestamp |-> parse_number(j.timestamp)]

json_examples(examples) == [i \in 1..Len(examples) |-> json_example(examples[i])]
parse_examples(j) == [i \in 1..Len(j) |-> parse_example(j[i])]

json_thresholds(thresholds) ==
    [k \in DOMAIN thresholds |-> json_number(thresholds[k])]
parse_thresholds(j) == [k \in DOMAIN j |-> parse_number(j[k])]

\* the document save_calibration dumps
json_dump_calibration(good, bad, thresholds) ==
    [good_examples |-> json_examples(good),
     bad_examples |-> json_examples(bad),
     thresholds |-> json_thresholds(thresholds)]

\* a calibrator object
Calibrator(good, bad, thresholds) ==
    [good_examples |-> good, bad_examples |-> bad,
     personalized_thresholds |-> thresholds]

\* load_calibration that forgets the stored thresholds
load_calibration_drop_thresholds(file, self) ==
    IF file.state # "valid"
    THEN self
    ELSE Calibrator(
            IF "good_examples" \in DOMAIN file.data
                THEN parse_examples(file.data.good_examples) ELSE <<>>,
            IF "bad_examples" \in DOMAIN file.data
                THEN parse_examples(file.data.bad_examples) ELSE <<>>,
            self.personalized_thresholds)

\* load_calibration: a missing file or one json.load rejects leaves the
\* calibrator as it is; data.get() defaults the missing keys and the
\* thresholds are merged over the defaults
load_calibration(file, self) ==
    IF file.state # "valid"
    THEN self
    ELSE LET data == file.data
             loaded_thresholds ==
                 IF "thresholds" \in DOMAIN data
                 THEN parse_thresholds(data.thresholds) ELSE <<>>
         IN  Calibrator(
                IF "good_examples" \in DOMAIN data
                    THEN parse_examples(data.good_examples) ELSE <<>>,
                IF "bad_examples" \in DOMAIN data
                    THEN parse_examples(data.bad_examples) ELSE <<>>,
                [k \in DOMAIN loaded_thresholds \cup DOMAIN self.personalized_thresholds |->
                    IF k \in DOMAIN loaded_thresholds
                    THEN loaded_thresholds[k]
                    ELSE self.personalized_thresholds[k]])

\* PostureCalibrator(calibration_file): the defaults, then load_calibration
PostureCalibrator(file) ==
    load_calibration(file, Calibrator(<<>>, <<>>, DefaultThresholds))

\* what save_calibration leaves in the file: the dump; the old file when
\* open() fails; a truncated, unparsable file when the write fails
save_calibration(file, good, bad, thresholds, outcome) ==
    CASE outcome = "ok" ->
            [state |-> "valid", data |-> json_dump_calibration(good, bad, thresholds)]
      [] outcome = "open_failed" -> file
      [] outcome = "write_failed" -> [state |-> "invalid", data |-> <<>>]

SaveOutcomes == {"ok", "open_failed", "write_failed"}

\* the calibration files a session may find: none, an unparsable one, and
\* one written without bad examples whose thresholds hold a single key
InitialCalibrationFiles ==
    { [state |-> "absent", data |-> <<>>],
      [state |-> "invalid", data |-> <<>>],
      [state |-> "valid",
       data |-> [good_examples |->
                    json_examples(<<new_example(Landmarks(6, 6, 3), Epoch - 1)>>),
                 thresholds |-> [head_height_threshold |-> json_number(Rat(1, 5))]]] }

-----------------------------------------------------------------------------
(* run_normal_mode: constants and helpers *)

\* None, for a time that is not set
NoTime == -1
\* safe_speak skips an announcement less than 2.0 s after the last one
MinVoiceGap == 4
\* the time.sleep(0.5) that ends every announcement
SpeakPause == 1
\* the pauses of play_stand_up_sound and of safe_speak: 0.3 + 0.3 + 0.5 s,
\* rounded up to whole ticks
StandUpPause == 3
\* seconds without a pose after which the sitting timer pauses (3 s)
pose_detection_threshold == 6
\* seconds without a pose after which sitting_alerted is reset (30 s)
SittingAlertReset == 60
\* the time.sleep(1) of an iteration skipped because the user is idle
IdleSleep == 2

\* an announcement whose sounds and speech take long
SlowSpeech == 4
\* the time from one frame to the next while the camera delivers frames
ShortGap == 2
\* the frames the camera delivers before cap.read() fails
MaxFrames == 5

\* no pose in the frame: results.pose_landmarks is None
NoPose == [LEFT_SHOULDER |-> Rat(0, 1), RIGHT_SHOULDER |-> Rat(0, 1),
           NOSE |-> Rat(0 - 1, 1)]

\* time between the end of one iteration and the pose detection of the next
FrameGaps == {0, ShortGap, pose_detection_threshold + 1, SittingAlertReset + 1}

\* what the loop sees, as <<gap, landmarks>>: frames that follow one another
\* closely show a pose or none; after a longer pause the model looks at the
\* frames with nobody in front of the camera
FrameInputs(poses) ==
    { <<gap, landmarks>> \in FrameGaps \X (poses \cup {NoPose}) :
        gap > ShortGap => landmarks = NoPose }

\* how an announcement that is not skipped goes: the engine speaks (for at
\* least the pauses of the code) or raises
SpeakOutcomes(sound_type) ==
    LET pause == IF sound_type = "stand_up" THEN StandUpPause ELSE SpeakPause
    IN  { [ok |-> TRUE, duration |-> pause],
          [ok |-> TRUE, duration |-> SlowSpeech],
          [ok |-> FALSE, duration |-> 0] }

\* the outcome where safe_speak is not called
NotSpoken == [ok |-> FALSE, duration |-> 0]

\* safe_speak without the rate limit
safe_speak_no_limit(busy, last_time, current_time, outcome) ==
    IF outcome.ok
    THEN [voice_busy |-> FALSE, last_voice_time |-> current_time,
          played |-> TRUE, raised |-> FALSE, duration |-> outcome.duration]
    ELSE [voice_busy |-> FALSE, last_voice_time |-> last_time,
          played |-> FALSE, raised |-> TRUE, duration |-> outcome.duration]

\* whether safe_speak returns at once, playing nothing
speak_skipped(busy, last_time, current_time) ==
    busy \/ (current_time - last_time) < MinVoiceGap

\* safe_speak(engine, message, voice_busy, last_voice_time, sound_type) called
\* at current_time: the returned pair, whether the announcement was played,
\* whether the engine raised and how long the call took
safe_speak(busy, last_time, current_time, outcome) ==
    IF speak_skipped(busy, last_time, current_time)
    THEN [voice_busy |-> busy, last_voice_time |-> last_time,
          played |-> FALSE, raised |-> FALSE, duration |-> 0]
    ELSE IF outcome.ok
    THEN [voice_busy |-> FALSE, last_voice_time |-> current_time,
          played |-> TRUE, raised |-> FALSE, duration |-> outcome.duration]
    ELSE [voice_busy |-> FALSE, last_voice_time |-> last_time,
          played |-> FALSE, raised |-> TRUE, duration |-> outcome.duration]

\* the result where safe_speak is not called
not_called(busy, last_time) ==
    [voice_busy |-> busy, last_voice_time |-> last_time,
     played |-> FALSE, raised |-> FALSE, duration |-> 0]

\* the bad_reasons list of a frame with a pose
bad_reasons_of(landmarks, thresholds) ==
    LET measurements == calculate_measurements(landmarks)
    IN  (IF RLess(measurements.head_height, thresholds.head_height_threshold)
         THEN <<"head height">> ELSE <<>>)
        \o
        (IF RLess(thresholds.nose_height_threshold, measurements.nose_height_in_frame)
         THEN <<"nose too low">> ELSE <<>>)

\* update_status_file
status_record(t, start, elapsed, visible) ==
    [timestamp |-> t, sitting_start_time |-> start, sitting_elapsed |-> elapsed,
     window_visible |-> visible, is_sitting |-> start # NoTime]

\* bad_posture_start_time that survives a frame without bad posture
bad_episode_start_kept(bad, start_time, current_time) ==
    IF start_time # NoTime THEN start_time
    ELSE IF bad THEN current_time ELSE NoTime

\* bad_posture_start_time after a frame: set at the first bad frame of an
\* episode, kept through the bad frames that follow, None after a frame with
\* good posture or with no pose
bad_episode_start(bad, start_time, current_time) ==
    IF bad
    THEN IF start_time = NoTime THEN current_time ELSE start_time
    ELSE NoTime

\* a repeat announcement in every bad frame after the initial alert
repeat_due_every_frame(last_announcement, current_time, interval) ==
    last_announcement > 0

\* the condition of the continuous announcements
repeat_due(last_announcement, current_time, interval) ==
    last_announcement > 0 /\ (current_time - last_announcement) >= interval

\* a reset of sitting_alerted by any frame without a pose
away_at_all(last_pose, current_time) ==
    last_pose # NoTime

\* the condition under which a frame without a pose resets sitting_alerted
away_for_long(last_pose, current_time) ==
    last_pose # NoTime /\ (current_time - last_pose) > SittingAlertReset

\* a sitting timer that every frame without a pose pauses
sitting_timer_no_grace(pose, start, last_pose, current_time) ==
    IF pose
    THEN IF start = NoTime THEN current_time ELSE start
    ELSE NoTime

\* sitting_start_time after the timer update of a frame: started by a frame
\* with a pose when it is None, paused by a frame without a pose that comes
\* more than pose_detection_threshold after the last pose
sitting_timer(pose, start, last_pose, current_time) ==
    IF pose
    THEN IF start = NoTime THEN current_time ELSE start
    ELSE IF last_pose # NoTime /\ (current_time - last_pose) > pose_detection_threshold
         THEN NoTime
         ELSE start

\* the configurations run_normal_mode may load, the durations in ticks
LoopConfigs ==
    { [monitor_detection_enabled |-> m, sitting_duration_threshold |-> s,
       bad_posture_duration_threshold |-> b, announcement_interval |-> a] :
        m \in BOOLEAN, s \in {2}, b \in {2}, a \in {2} }

\* the calibration files run_normal_mode may find
LoopCalibrationFiles ==
    { [state |-> "absent", data |-> <<>>],
      [state |-> "valid",
       data |-> json_dump_calibration(<<>>, <<>>,
                    [head_height_threshold |-> Rat(1, 4),
                     nose_height_threshold |-> Rat(9, 20)])] }

\* the frame record before any frame was processed
NoFrame ==
    [pose |-> FALSE, bad_reasons |-> <<>>, is_bad_pose |-> FALSE,
     posture_called |-> FALSE, posture_played |-> FALSE,
     posture_raised |-> FALSE, since_voice |-> 0,
     stand_up_called |-> FALSE, stand_up_played |-> FALSE,
     stand_up_raised |-> FALSE, first_reach |-> FALSE, time |-> NoTime,
     sitting_alert_reset |-> FALSE]

\* the state before run_normal_mode has started
LoopNotStarted ==
    /\ config = [monitor_detection_enabled |-> FALSE,
                 sitting_duration_threshold |-> 0,
                 bad_posture_duration_threshold |-> 0,
                 announcement_interval |-> 0]
    /\ frame_count = 0
    /\ voice_busy = FALSE
    /\ last_voice_time = 0
    /\ bad_posture_start_time = NoTime
    /\ last_announcement_time = 0
    /\ sitting_start_time = NoTime
    /\ sitting_alerted = FALSE
    /\ last_pose_time = NoTime
    /\ sitting_elapsed = 0
    /\ window_should_be_visible = FALSE
    /\ toggle_window_txt = FALSE
    /\ posture_status = status_record(NoTime, NoTime, 0, FALSE)
    /\ loop_step = "off"
    /\ pose_landmarks = NoPose
    /\ frame = NoFrame
    /\ bad_run_start = NoTime
    /\ bad_run_reached = FALSE
    /\ bad_run_announced = NoTime
    /\ stand_up_asked = FALSE

-----------------------------------------------------------------------------
(* MonitorDetector: constants and helpers *)

\* None, for posture_process
NoProcess == 0
\* the children the detector starts
MaxStarts == 4

\* what the iteration record holds before the loop has run
NoIteration ==
    [done |-> FALSE, polled |-> TRUE, raised |-> FALSE, child_running |-> FALSE,
     start_attempted |-> FALSE, stopped |-> "none"]

\* how 'brightnessctl get' goes: it prints a brightness, prints something
\* else, exits with an error, takes longer than the timeout, or is not
\* installed
BrightnessReadings == {"0", "50", "garbage", "error", "timeout", "missing"}

\* is_monitor_on: the value it returns, or raised for an exception it does
\* not catch
is_monitor_on(reading) ==
    CASE reading = "0" -> [raised |-> FALSE, value |-> FALSE]
      [] reading = "50" -> [raised |-> FALSE, value |-> TRUE]
      [] reading = "garbage" -> [raised |-> FALSE, value |-> TRUE]
      [] reading = "error" -> [raised |-> FALSE, value |-> TRUE]
      [] reading = "timeout" -> [raised |-> FALSE, value |-> TRUE]
      [] reading = "missing" -> [raised |-> TRUE, value |-> TRUE]

\* how Popen goes
StartOutcomes == {"started", "raise"}
\* whether the child exits within 5 s of terminate()
StopOutcomes == {"graceful", "timeout"}

\* the detector's fields and children, as the helpers below pass them on
Detector(process, live, pids, attempted, stopped) ==
    [posture_process |-> process, alive |-> live, next_pid |-> pids,
     start_attempted |-> attempted, stopped |-> stopped]

\* a poll() that reports every child as exited
process_running_never(d) ==
    d.posture_process # NoProcess /\ d.posture_process \in {}

\* whether posture_process is set and poll() is None
process_running(d) ==
    d.posture_process # NoProcess /\ d.posture_process \in d.alive

start_posture_detection(d, outcome) ==
    IF process_running(d)
    THEN d
    ELSE IF outcome = "started"
    THEN Detector(d.next_pid + 1, d.alive \cup {d.next_pid + 1}, d.next_pid + 1,
                  TRUE, d.stopped)
    ELSE Detector(d.posture_process, d.alive, d.next_pid, TRUE, d.stopped)

\* stop_posture_detection that does not kill a child that ignores terminate()
stop_posture_detection_no_kill(d, outcome) ==
    IF process_running(d) /\ outcome = "graceful"
    THEN Detector(d.posture_process, d.alive \ {d.posture_process}, d.next_pid,
                  d.start_attempted, "graceful")
    ELSE d

stop_posture_detection(d, outcome) ==
    IF process_running(d)
    THEN Detector(d.posture_process, d.alive \ {d.posture_process}, d.next_pid,
                  d.start_attempted,
                  IF outcome = "graceful" THEN "graceful" ELSE "killed")
    ELSE d

\* the state before a MonitorDetector exists
MonitorNotStarted ==
    /\ running = FALSE
    /\ monitor_on = FALSE
    /\ posture_process = NoProcess
    /\ detector_pc = "off"
    /\ alive = {}
    /\ next_pid = 0
    /\ iteration = NoIteration

-----------------------------------------------------------------------------
(* config_manager.py and menu_bar_controller.py: constants and helpers *)

\* args.camera when --camera is not given (None)
NoCamera == -1
\* the camera indexes given with --camera
MaxCamera == 1

DEFAULT_CONFIG ==
    [auto_start_enabled |-> FALSE, monitor_detection_enabled |-> FALSE,
     camera_index |-> 0, sitting_duration_threshold |-> 1200,
     bad_posture_duration_threshold |-> 60, announcement_interval |-> 5]

\* DEFAULT_CONFIG of pose_webcam.py
PW_DEFAULT_CONFIG ==
    [auto_start_enabled |-> FALSE, monitor_detection_enabled |-> FALSE,
     alert_duration_seconds |-> 5, camera_index |-> 0,
     sitting_duration_threshold |-> 1800,
     bad_posture_duration_threshold |-> 60, announcement_interval |-> 5,
     camera_width |-> 640, camera_height |-> 480, processing_fps |-> 10]

\* what a call of load_config returns: a dict, or the list or str that
\* json.load produced
Returned(kind, value) == [kind |-> kind, value |-> value]

\* the body of load_config, the same in both modules.  A file is absent,
\* unreadable (open raises), invalid (json.load raises) or holds a JSON
\* value: an object ("valid", data the object), an array (data the set of
\* its elements), a string (data the set of the keys that occur in it) or a
\* number, true, false or null ("scalar").  For an object the missing keys
\* are taken from the defaults.  For an array or a string 'key not in
\* config' is a membership or substring test: with every key found nothing
\* is assigned and the value is returned as it is, otherwise the item
\* assignment raises TypeError and the except clause returns the defaults.
\* For a scalar the test itself raises TypeError
load_config_result(defaults, file) ==
    CASE file.state = "valid" ->
           Returned("dict",
                    [key \in DOMAIN file.data \cup DOMAIN defaults |->
                        IF key \in DOMAIN file.data THEN file.data[key]
                                                    ELSE defaults[key]])
      [] file.state = "array" ->
           IF DOMAIN defaults \subseteq file.data
           THEN Returned("list", file.data)
           ELSE Returned("dict", defaults)
      [] file.state = "string" ->
           IF DOMAIN defaults \subseteq file.data
           THEN Returned("str", file.data)
           ELSE Returned("dict", defaults)
      [] OTHER -> Returned("dict", defaults)

\* load_config of config_manager.py, as its callers use it: the dict
load_config(file) == load_config_result(DEFAULT_CONFIG, file).value

\* load_config of pose_webcam.py
pw_load_config(file) == load_config_result(PW_DEFAULT_CONFIG, file)

\* save_config: the file it leaves, its exceptions being caught and printed
save_config(file, cfg, outcome) ==
    CASE outcome = "ok" -> [state |-> "valid", data |-> cfg]
      [] outcome = "open_failed" -> file
      [] outcome = "write_failed" -> [state |-> "invalid", data |-> <<>>]

\* how creating or removing the LaunchAgent plist goes
AgentOutcomes == {"ok", "raise"}
\* whether pose_webcam.py is found running two seconds after the launch
LaunchOutcomes == {"running", "not_running"}
\* whether subprocess.run can run python3 config_manager.py
RunOutcomes == {"ran", "spawn_failed"}

\* toggle_auto_start: the file and the plist it leaves and whether it raised.
\* An exception of create_launch_agent or of os.remove (other than
\* FileNotFoundError) leaves the function before save_config
toggle_auto_start(file, plist, agent_outcome, save_outcome) ==
    LET loaded == load_config(file)
        cfg == [loaded EXCEPT !.auto_start_enabled = ~loaded.auto_start_enabled]
    IN  IF agent_outcome = "raise"
        THEN [file |-> file, plist |-> plist, raised |-> TRUE]
        ELSE [file |-> save_config(file, cfg, save_outcome),
              plist |-> cfg.auto_start_enabled,
              raised |-> FALSE]

toggle_monitor_detection(file, save_outcome) ==
    LET loaded == load_config(file)
        cfg == [loaded EXCEPT
                   !.monitor_detection_enabled = ~loaded.monitor_detection_enabled]
    IN  save_config(file, cfg, save_outcome)

\* config_manager.start_posture_detection: whether detection runs afterwards
\* and the value returned
cm_start_posture_detection(launch_outcome) ==
    [running |-> launch_outcome = "running", ret |-> launch_outcome = "running"]

\* the outcomes of a step of main: those of all_outcomes when the step is
\* taken, and one that stands for the step not being taken
Outcomes(taken, all_outcomes) ==
    IF taken THEN all_outcomes ELSE {CHOOSE o \in all_outcomes : TRUE}

\* the command line of the menu bar's start_posture_detection
StartCommand ==
    [toggle_auto_start |-> FALSE, toggle_monitor |-> FALSE, start |-> TRUE,
     stop |-> FALSE, camera |-> NoCamera]

\* the command line of the menu bar's stop_posture_detection
StopCommand ==
    [toggle_auto_start |-> FALSE, toggle_monitor |-> FALSE, start |-> FALSE,
     stop |-> TRUE, camera |-> NoCamera]

\* the command lines of config_manager.py: those that change the
\* configuration, --start and --stop
CommandLines ==
    [toggle_auto_start : BOOLEAN, toggle_monitor : BOOLEAN, start : {FALSE},
     stop : {FALSE}, camera : {NoCamera} \cup 0..MaxCamera]
    \cup {StartCommand, StopCommand}

\* any(vars(args).values())
any_args(args) ==
    \/ args.toggle_auto_start
    \/ args.toggle_monitor
    \/ args.start
    \/ args.stop
    \/ (args.camera # NoCamera /\ args.camera # 0)

\* main of config_manager.py: the files and processes it leaves, its exit
\* code and what start_posture_detection returned ("none" when not called)
main(args, file, plist, is_running, agent_outcome, save_toggle, save_camera, launch_outcome) ==
    IF ~any_args(args)
    THEN [file |-> file, plist |-> plist, running |-> is_running,
          exit_code |-> 0, start_ret |-> "none"]
    ELSE
    LET cfg == load_config(file)
        toggled == IF args.toggle_auto_start
                   THEN toggle_auto_start(file, plist, agent_outcome, save_toggle)
                   ELSE [file |-> file, plist |-> plist, raised |-> FALSE]
        file_2 == IF args.toggle_monitor
                  THEN toggle_monitor_detection(toggled.file, save_toggle)
                  ELSE toggled.file
        started == IF args.start
                   THEN cm_start_posture_detection(launch_outcome)
                   ELSE [running |-> is_running, ret |-> FALSE]
        running_2 == IF args.stop THEN FALSE ELSE started.running
        file_3 == IF args.camera # NoCamera
                  THEN save_config(file_2,
                                   [cfg EXCEPT !.camera_index = args.camera],
                                   save_camera)
                  ELSE file_2
    IN  IF toggled.raised
        THEN [file |-> toggled.file, plist |-> toggled.plist,
              running |-> is_running, exit_code |-> 1, start_ret |-> "none"]
        ELSE [file |-> file_3, plist |-> toggled.plist, running |-> running_2,
              exit_code |-> 0,
              start_ret |-> IF ~args.start THEN "none"
                            ELSE IF started.ret THEN "True" ELSE "False"]

\* the flags a config.json stores
stored_flags(file) ==
    LET cfg == load_config(file)
    IN  [auto_start_enabled |-> cfg.auto_start_enabled,
         monitor_detection_enabled |-> cfg.monitor_detection_enabled]

\* the record of an operation
Operation(op, args, before, raised, saved, start_ret) ==
    [op |-> op, args |-> args, before |-> before, raised |-> raised,
     saved |-> saved, start_ret |-> start_ret]

NoCommand ==
    [toggle_auto_start |-> FALSE, toggle_monitor |-> FALSE, start |-> FALSE,
     stop |-> FALSE, camera |-> NoCamera]

\* the config.json files an installation may hold
InitialConfigFiles ==
    { [state |-> "absent", data |-> <<>>],
      [state |-> "valid", data |-> [camera_index |-> 0]] }
    \cup
    { [state |-> "valid",
       data |-> [DEFAULT_CONFIG EXCEPT !.auto_start_enabled = a,
                                       !.monitor_detection_enabled = m]] :
        a \in BOOLEAN, m \in BOOLEAN }

\* no config.json
NoConfigFile == [state |-> "absent", data |-> <<>>]

\* the two modules that define load_config
ConfigModules == {"config_manager", "pose_webcam"}

\* the keys whose values are booleans
BooleanKeys == {"auto_start_enabled", "monitor_detection_enabled"}

\* a value a config.json holds for a key, different from both defaults
FileValue(key) == IF key \in BooleanKeys THEN TRUE ELSE 7

\* the config.json files load_config may find: none, one that cannot be
\* opened, one that is not JSON, an object with any of the keys, an array or
\* a string with none, one, some or all of the key names, and a number
LoadableConfigFiles ==
    { [state |-> st, data |-> <<>>] :
        st \in {"absent", "unreadable", "invalid", "scalar"} }
    \cup
    { [state |-> "valid", data |-> [key \in keys |-> FileValue(key)]] :
        keys \in SUBSET DOMAIN PW_DEFAULT_CONFIG }
    \cup
    { [state |-> st, data |-> keys] :
        st \in {"array", "string"},
        keys \in {{}, {"camera_index"}, DOMAIN DEFAULT_CONFIG,
                  DOMAIN PW_DEFAULT_CONFIG} }

\* no call of load_config yet
NotLoaded == [module |-> "none", result |-> Returned("none", <<>>)]

\* the state before any of the two programs has run
ManagerNotStarted ==
    /\ config_json = [state |-> "absent", data |-> <<>>]
    /\ plist_exists = FALSE
    /\ detection_running = FALSE
    /\ notification = "none"
    /\ manager_op = Operation("none", NoCommand, stored_flags(config_json),
                              FALSE, TRUE, "none")
    /\ config_loaded = NotLoaded

-----------------------------------------------------------------------------
(* The toggle-file handshake: constants and helpers *)

\* the requests the menu bar makes
MaxRequests == 2

\* no request is being made
ToggleNotStarted ==
    /\ menu_pc = "idle"
    /\ menu_returned = "none"
    /\ toggle_pc = "idle"
    /\ requests = 0
    /\ seen_request = 0
    /\ toggled_for = {}

-----------------------------------------------------------------------------
(* run_calibration_mode: the keys of the calibration session *)

InitCalibration ==
    /\ now = Epoch
    /\ \E file \in InitialCalibrationFiles :
          \E calibrator \in {PostureCalibrator(file)} :
              /\ calibration_file = file
              /\ good_examples = calibrator.good_examples
              /\ bad_examples = calibrator.bad_examples
              /\ personalized_thresholds = calibrator.personalized_thresholds
    /\ calib_result = FALSE
    /\ calib_op = "init"
    /\ LoopNotStarted
    /\ MonitorNotStarted
    /\ ManagerNotStarted
    /\ ToggleNotStarted

\* 'g' / 'b' with a pose in the frame: add_example
AddExample(landmarks, is_good) ==
    /\ IF is_good THEN Len(good_examples) < MaxExamples
                  ELSE Len(bad_examples) < MaxExamples
    /\ UNCHANGED now
    /\ IF is_good
       THEN /\ good_examples' = Append(good_examples, new_example(landmarks, now))
            /\ UNCHANGED bad_examples
       ELSE /\ bad_examples' = Append(bad_examples, new_example(landmarks, now))
            /\ UNCHANGED good_examples
    /\ calib_op' = "add"
    /\ UNCHANGED <<personalized_thresholds, calibration_file, calib_result>>
    /\ UNCHANGED <<loopVars, monitorVars, managerVars, toggleVars>>

\* 'c': calculate_personalized_thresholds
CalculateThresholds ==
    \E r \in {calculate_personalized_thresholds(good_examples, bad_examples,
                                                personalized_thresholds)} :
        /\ personalized_thresholds' = r.thresholds
        /\ calib_result' = r.ret
        /\ calib_op' = "calculate"
        /\ UNCHANGED <<now, good_examples, bad_examples, calibration_file>>
        /\ UNCHANGED <<loopVars, monitorVars, managerVars, toggleVars>>

\* 's': save_calibration
SaveCalibration(outcome) ==
    /\ calibration_file' = save_calibration(calibration_file, good_examples,
                                bad_examples, personalized_thresholds, outcome)
    /\ calib_op' = IF outcome = "ok" THEN "saved" ELSE "save_failed"
    /\ UNCHANGED <<now, good_examples, bad_examples, personalized_thresholds,
                   calib_result>>
    /\ UNCHANGED <<loopVars, monitorVars, managerVars, toggleVars>>

\* the program is started again: a new PostureCalibrator on the same file
NewCalibrator ==
    \E calibrator \in {PostureCalibrator(calibration_file)} :
        /\ calib_op # "init"
        /\ good_examples' = calibrator.good_examples
        /\ bad_examples' = calibrator.bad_examples
        /\ personalized_thresholds' = calibrator.personalized_thresholds
        /\ calib_result' = FALSE
        /\ calib_op' = "constructed"
        /\ UNCHANGED <<now, calibration_file>>
        /\ UNCHANGED <<loopVars, monitorVars, managerVars, toggleVars>>

-----------------------------------------------------------------------------
(* run_normal_mode *)

\* the state when the loop is entered: the configuration and the
\* calibration are loaded, the alert and timer variables are initialised
InitLoop ==
    /\ now = Epoch
    /\ \E file \in LoopCalibrationFiles :
          \E calibrator \in {PostureCalibrator(file)} :
              /\ calibration_file = file
              /\ good_examples = calibrator.good_examples
              /\ bad_examples = calibrator.bad_examples
              /\ personalized_thresholds = calibrator.personalized_thresholds
    /\ calib_result = FALSE
    /\ calib_op = "constructed"
    /\ config \in LoopConfigs
    /\ frame_count = 0
    /\ voice_busy = FALSE
    /\ last_voice_time = 0
    /\ bad_posture_start_time = NoTime
    /\ last_announcement_time = 0
    /\ sitting_start_time = NoTime
    /\ sitting_alerted = FALSE
    /\ last_pose_time = NoTime
    /\ sitting_elapsed = 0
    /\ window_should_be_visible = FALSE
    /\ toggle_window_txt = FALSE
    /\ posture_status = status_record(NoTime, NoTime, 0, FALSE)
    /\ loop_step = "started"
    /\ pose_landmarks = NoPose
    /\ frame = NoFrame
    /\ bad_run_start = NoTime
    /\ bad_run_reached = FALSE
    /\ bad_run_announced = NoTime
    /\ stand_up_asked = FALSE
    /\ MonitorNotStarted
    /\ ManagerNotStarted
    /\ ToggleNotStarted

\* an idle iteration that pauses the sitting timer as an absence would
SkipIdleFramePausingTimer ==
    /\ loop_step # "off"
    /\ frame_count < MaxFrames
    /\ frame_count' = frame_count + 1
    /\ config.monitor_detection_enabled
    /\ now' = now + IdleSleep
    /\ loop_step' = "idle"
    /\ sitting_start_time' = NoTime
    /\ UNCHANGED <<config, voice_busy, last_voice_time, bad_posture_start_time,
                   last_announcement_time, sitting_alerted,
                   last_pose_time, sitting_elapsed, window_should_be_visible,
                   toggle_window_txt, posture_status, pose_landmarks, frame,
                   bad_run_start, bad_run_reached, bad_run_announced, stand_up_asked>>
    /\ UNCHANGED <<calibVars, monitorVars, managerVars, toggleVars>>

\* an iteration skipped because monitor detection is enabled and
\* is_user_active() reports the user idle: time.sleep(1), continue
SkipIdleFrame ==
    /\ loop_step # "off"
    /\ frame_count < MaxFrames
    /\ frame_count' = frame_count + 1
    /\ config.monitor_detection_enabled
    /\ now' = now + IdleSleep
    /\ loop_step' = "idle"
    /\ UNCHANGED <<config, voice_busy, last_voice_time, bad_posture_start_time,
                   last_announcement_time, sitting_start_time, sitting_alerted,
                   last_pose_time, sitting_elapsed, window_should_be_visible,
                   toggle_window_txt, posture_status, pose_landmarks, frame,
                   bad_run_start, bad_run_reached, bad_run_announced, stand_up_asked>>
    /\ UNCHANGED <<calibVars, monitorVars, managerVars, toggleVars>>

\* one processed frame: the whole body of the loop.  landmarks is what the
\* pose model finds gap ticks after the last iteration ended; speak1 and
\* speak2 are how the posture and the stand-up announcement go when
\* safe_speak plays them
ProcessFrame(gap, landmarks) ==
    /\ loop_step # "off"
    /\ frame_count < MaxFrames
    /\ frame_count' = frame_count + 1
    /\ \E current_time \in {now + gap},
          bad_reasons \in {IF landmarks # NoPose
                           THEN bad_reasons_of(landmarks, personalized_thresholds)
                           ELSE <<>>} :
       LET pose == landmarks # NoPose
           bad == bad_reasons # <<>>
       IN
       \E \* the sitting timer
          last_pose_1 \in {IF pose THEN current_time ELSE last_pose_time},
          sitting_start_1 \in
            {sitting_timer(pose, sitting_start_time, last_pose_time, current_time)},
          \* bad posture
          start_1 \in
            {bad_episode_start(bad, bad_posture_start_time, current_time)},
          announcement_0 \in
            {IF bad /\ bad_posture_start_time = NoTime THEN 0
             ELSE last_announcement_time},
          sitting_alerted_1 \in
            {IF ~pose /\ away_for_long(last_pose_time, current_time)
             THEN FALSE ELSE sitting_alerted},
          \* the window toggle request of the menu bar
          visible_1 \in {IF toggle_window_txt THEN ~window_should_be_visible
                                              ELSE window_should_be_visible},
          \* history
          run_start_1 \in
            {IF bad
             THEN IF bad_run_start = NoTime THEN current_time ELSE bad_run_start
             ELSE NoTime},
          reached_now \in
            {/\ bad
             /\ current_time - (IF bad_run_start = NoTime THEN current_time
                                                          ELSE bad_run_start)
                   >= config.bad_posture_duration_threshold} :
       \E initial_alert \in
            {/\ bad
             /\ (current_time - start_1) >= config.bad_posture_duration_threshold
             /\ announcement_0 = 0} :
       \E posture_called \in
            {\/ initial_alert
             \/ /\ bad
                /\ repeat_due(announcement_0, current_time,
                              config.announcement_interval)} :
       \E speak1 \in (IF posture_called THEN SpeakOutcomes("posture")
                                        ELSE {NotSpoken}) :
       \E spoken1 \in
            {IF posture_called
             THEN safe_speak(voice_busy, last_voice_time, current_time, speak1)
             ELSE not_called(voice_busy, last_voice_time)} :
       \* the sitting check, after the posture announcement returned
       \E t1 \in {current_time + spoken1.duration} :
       \E elapsed_1 \in {IF sitting_start_1 # NoTime THEN t1 - sitting_start_1 ELSE 0} :
       \E stand_up_called \in
            {/\ sitting_start_1 # NoTime
             /\ elapsed_1 >= config.sitting_duration_threshold
             /\ ~sitting_alerted_1} :
       \E speak2 \in (IF stand_up_called THEN SpeakOutcomes("stand_up")
                                         ELSE {NotSpoken}) :
       \E spoken2 \in
            {IF stand_up_called
             THEN safe_speak(spoken1.voice_busy, spoken1.last_voice_time, t1, speak2)
             ELSE not_called(spoken1.voice_busy, spoken1.last_voice_time)} :
       \E t2 \in {t1 + spoken2.duration} :
          /\ now' = t2
          /\ voice_busy' = spoken2.voice_busy
          /\ last_voice_time' = spoken2.last_voice_time
          /\ bad_posture_start_time' = start_1
          /\ last_announcement_time' =
                (IF posture_called THEN current_time
                 ELSE IF ~pose THEN 0 ELSE announcement_0)
          /\ sitting_start_time' = sitting_start_1
          /\ sitting_alerted' = (stand_up_called \/ sitting_alerted_1)
          /\ last_pose_time' = last_pose_1
          /\ sitting_elapsed' = elapsed_1
          /\ window_should_be_visible' = visible_1
          /\ toggle_window_txt' = FALSE
          /\ posture_status' =
                status_record(t2, sitting_start_1, elapsed_1, visible_1)
          /\ loop_step' = "processed"
          /\ pose_landmarks' = landmarks
          /\ frame' =
                [pose |-> pose,
                 bad_reasons |-> bad_reasons,
                 is_bad_pose |->
                     pose /\ is_bad_pose(landmarks, personalized_thresholds),
                 posture_called |-> posture_called,
                 posture_played |-> spoken1.played,
                 posture_raised |-> spoken1.raised,
                 since_voice |->
                     IF posture_called THEN current_time - last_voice_time ELSE 0,
                 stand_up_called |-> stand_up_called,
                 stand_up_played |-> spoken2.played,
                 stand_up_raised |-> spoken2.raised,
                 first_reach |-> reached_now /\ ~bad_run_reached,
                 time |-> current_time,
                 sitting_alert_reset |-> sitting_alerted /\ ~sitting_alerted_1]
          /\ bad_run_start' = run_start_1
          /\ bad_run_reached' = (bad /\ (bad_run_reached \/ reached_now))
          /\ bad_run_announced' =
                (IF ~bad THEN NoTime
                 ELSE IF posture_called THEN current_time
                 ELSE bad_run_announced)
          /\ stand_up_asked' =
                (IF sitting_start_1 = NoTime THEN FALSE
                 ELSE IF sitting_start_time = NoTime THEN stand_up_called
                 ELSE stand_up_asked \/ stand_up_called)
    /\ UNCHANGED config
    /\ UNCHANGED <<calibVars, monitorVars, managerVars, toggleVars>>

NextLoop ==
    \/ SkipIdleFrame
    \/ \E input \in FrameInputs(LoopPoses) : ProcessFrame(input[1], input[2])

SpecLoop == InitLoop /\ [][NextLoop]_vars

\* the loop in front of every pose of LandmarkSets, the frames following one
\* another closely
NextPosture ==
    \E landmarks \in LandmarkSets \cup {NoPose} : ProcessFrame(ShortGap, landmarks)

SpecPosture == InitLoop /\ [][NextPosture]_vars

NextCalibration ==
    \/ \E landmarks \in CalibrationPoses, is_good \in BOOLEAN :
          AddExample(landmarks, is_good)
    \/ CalculateThresholds
    \/ \E outcome \in SaveOutcomes : SaveCalibration(outcome)
    \/ NewCalibrator

SpecCalibration == InitCalibration /\ [][NextCalibration]_vars

-----------------------------------------------------------------------------
(* MonitorDetector.run *)

\* MonitorDetector(): __init__
InitMonitor ==
    /\ now = Epoch
    /\ calibration_file = [state |-> "absent", data |-> <<>>]
    /\ good_examples = <<>>
    /\ bad_examples = <<>>
    /\ personalized_thresholds = DefaultThresholds
    /\ calib_result = FALSE
    /\ calib_op = "init"
    /\ LoopNotStarted
    /\ running = TRUE
    /\ monitor_on = TRUE
    /\ posture_process = NoProcess
    /\ detector_pc = "init"
    /\ alive = {}
    /\ next_pid = 0
    /\ iteration = NoIteration
    /\ ManagerNotStarted
    /\ ToggleNotStarted

\* run() up to the loop: the initial monitor state check and the first start.
\* An exception of is_monitor_on is not caught here and ends the program
RunStart(reading, start_outcome) ==
    /\ detector_pc = "init"
    /\ LET checked == is_monitor_on(reading)
           state == checked.value
           d0 == Detector(posture_process, alive, next_pid, FALSE, "none")
           d1 == IF state THEN start_posture_detection(d0, start_outcome)
                          ELSE d0
       IN  IF checked.raised
           THEN /\ detector_pc' = "crashed"
                /\ UNCHANGED <<monitor_on, posture_process, alive, next_pid>>
           ELSE /\ detector_pc' = "loop"
                /\ monitor_on' = state
                /\ posture_process' = d1.posture_process
                /\ alive' = d1.alive
                /\ next_pid' = d1.next_pid
    /\ UNCHANGED <<running, iteration>>
    /\ UNCHANGED <<now, calibVars, loopVars, managerVars, toggleVars>>

\* one iteration of the monitoring loop
Poll(reading, start_outcome, restart_outcome, stop_outcome) ==
    /\ detector_pc = "loop"
    /\ running
    /\ LET checked == is_monitor_on(reading)
           state == checked.value
           d0 == Detector(posture_process, alive, next_pid, FALSE, "none")
           \* state change detected
           d1 == IF state = monitor_on THEN d0
                 ELSE IF state
                 THEN start_posture_detection(d0, start_outcome)
                 ELSE stop_posture_detection(d0, stop_outcome)
           \* check if the posture detection process is still running
           exited == d1.posture_process # NoProcess /\ ~process_running(d1)
           d2 == IF exited /\ state
                 THEN start_posture_detection(d1, restart_outcome)
                 ELSE IF exited
                 THEN Detector(NoProcess, d1.alive, d1.next_pid,
                               d1.start_attempted, d1.stopped)
                 ELSE d1
       IN  IF checked.raised
           THEN \* except Exception: the rest of the iteration is skipped
                /\ iteration' = [done |-> TRUE, polled |-> monitor_on,
                                 raised |-> TRUE,
                                 child_running |-> process_running(d0),
                                 start_attempted |-> FALSE, stopped |-> "none"]
                /\ UNCHANGED <<monitor_on, posture_process, alive, next_pid>>
           ELSE /\ d2.next_pid <= MaxStarts
                /\ monitor_on' = state
                /\ posture_process' = d2.posture_process
                /\ alive' = d2.alive
                /\ next_pid' = d2.next_pid
                /\ iteration' = [done |-> TRUE, polled |-> state,
                                 raised |-> FALSE,
                                 child_running |-> process_running(d0),
                                 start_attempted |-> d2.start_attempted,
                                 stopped |-> d2.stopped]
    /\ UNCHANGED <<running, detector_pc>>
    /\ UNCHANGED <<now, calibVars, loopVars, managerVars, toggleVars>>

\* the child crashes or exits by itself
ChildExits(pid) ==
    /\ pid \in alive
    /\ alive' = alive \ {pid}
    /\ UNCHANGED <<running, monitor_on, posture_process, detector_pc, next_pid,
                   iteration>>
    /\ UNCHANGED <<now, calibVars, loopVars, managerVars, toggleVars>>

\* signal_handler: SIGINT or SIGTERM arrives while run() is in the loop
SignalReceived(stop_outcome) ==
    /\ detector_pc = "loop"
    /\ running' = FALSE
    /\ LET d0 == Detector(posture_process, alive, next_pid, FALSE, "none")
           d1 == IF posture_process # NoProcess
                 THEN stop_posture_detection(d0, stop_outcome) ELSE d0
       IN  alive' = d1.alive
    /\ detector_pc' = "exited"
    /\ UNCHANGED <<monitor_on, posture_process, next_pid, iteration>>
    /\ UNCHANGED <<now, calibVars, loopVars, managerVars, toggleVars>>

\* signal_handler: SIGINT or SIGTERM arrives while start_posture_detection
\* is executing, after Popen has spawned the child and before
\* self.posture_process is assigned.  The handler sees the old
\* posture_process, and sys.exit(0) unwinds start_posture_detection
SignalDuringStart(reading) ==
    /\ detector_pc \in {"init", "loop"}
    /\ running
    /\ next_pid < MaxStarts
    /\ LET checked == is_monitor_on(reading)
           d0 == Detector(posture_process, alive, next_pid, FALSE, "none")
           \* the lines that call start_posture_detection: 125, 139 and 150
           start_due == \/ detector_pc = "init"
                        \/ ~monitor_on
                        \/ posture_process # NoProcess
           d1 == IF posture_process # NoProcess
                 THEN stop_posture_detection(d0, "graceful") ELSE d0
       IN  /\ ~checked.raised
           /\ checked.value
           /\ start_due
           /\ ~process_running(d0)
           /\ alive' = d1.alive \cup {next_pid + 1}
    /\ next_pid' = next_pid + 1
    /\ monitor_on' = TRUE
    /\ running' = FALSE
    /\ detector_pc' = "exited"
    /\ UNCHANGED <<posture_process, iteration>>
    /\ UNCHANGED <<now, calibVars, loopVars, managerVars, toggleVars>>

NextMonitor ==
    \/ \E reading \in BrightnessReadings, start_outcome \in StartOutcomes :
          RunStart(reading, start_outcome)
    \/ \E reading \in BrightnessReadings,
          start_outcome \in StartOutcomes, restart_outcome \in StartOutcomes,
          stop_outcome \in StopOutcomes :
          Poll(reading, start_outcome, restart_outcome, stop_outcome)
    \/ \E pid \in 1..MaxStarts : ChildExits(pid)
    \/ \E stop_outcome \in StopOutcomes : SignalReceived(stop_outcome)
    \/ \E reading \in BrightnessReadings : SignalDuringStart(reading)

SpecMonitor == InitMonitor /\ [][NextMonitor]_vars

-----------------------------------------------------------------------------
(* config_manager.py and the menu bar *)

InitManager ==
    /\ now = Epoch
    /\ calibration_file = [state |-> "absent", data |-> <<>>]
    /\ good_examples = <<>>
    /\ bad_examples = <<>>
    /\ personalized_thresholds = DefaultThresholds
    /\ calib_result = FALSE
    /\ calib_op = "init"
    /\ LoopNotStarted
    /\ MonitorNotStarted
    /\ config_json \in InitialConfigFiles
    /\ plist_exists = load_config(config_json).auto_start_enabled
    /\ detection_running \in BOOLEAN
    /\ notification = "none"
    /\ manager_op = Operation("none", NoCommand, stored_flags(config_json),
                              FALSE, TRUE, "none")
    /\ config_loaded = NotLoaded
    /\ ToggleNotStarted

\* a call of toggle_auto_start
ToggleAutoStart(agent_outcome, save_outcome) ==
    /\ \E r \in {toggle_auto_start(config_json, plist_exists, agent_outcome,
                                   save_outcome)} :
          /\ config_json' = r.file
          /\ plist_exists' = r.plist
          /\ manager_op' = Operation("toggle_auto_start", NoCommand,
                                     stored_flags(config_json), r.raised,
                                     save_outcome = "ok", "none")
    /\ UNCHANGED <<detection_running, notification>>
    /\ UNCHANGED <<now, calibVars, loopVars, monitorVars, toggleVars, config_loaded>>

\* python3 config_manager.py with the arguments args; save_toggle is how the
\* saves of the toggles go, save_camera how the save of the camera index goes
Main(args, agent_outcome, save_toggle, save_camera, launch_outcome) ==
    /\ \E r \in {main(args, config_json, plist_exists, detection_running,
                      agent_outcome, save_toggle, save_camera,
                      launch_outcome)} :
          /\ config_json' = r.file
          /\ plist_exists' = r.plist
          /\ detection_running' = r.running
          /\ manager_op' = Operation("main", args, stored_flags(config_json),
                                     r.exit_code # 0,
                                     save_toggle = "ok" /\ save_camera = "ok",
                                     r.start_ret)
    /\ UNCHANGED notification
    /\ UNCHANGED <<now, calibVars, loopVars, monitorVars, toggleVars, config_loaded>>

\* the menu item 'Start Posture Detection': start_detection, which calls the
\* menu bar's start_posture_detection
StartDetection(run_outcome, launch_outcome) ==
    /\ \E r \in {IF run_outcome = "ran"
                 THEN main(StartCommand, config_json, plist_exists,
                           detection_running, "ok", "ok", "ok", launch_outcome)
                 ELSE [file |-> config_json, plist |-> plist_exists,
                       running |-> detection_running, exit_code |-> 1,
                       start_ret |-> "none"]} :
          /\ config_json' = r.file
          /\ plist_exists' = r.plist
          /\ detection_running' = r.running
          /\ notification' = IF run_outcome = "ran" /\ r.exit_code = 0
                             THEN "Posture Detection Started" ELSE "Error"
          /\ manager_op' = Operation("start_detection", StartCommand,
                                     stored_flags(config_json),
                                     run_outcome # "ran", TRUE, r.start_ret)
    /\ UNCHANGED <<now, calibVars, loopVars, monitorVars, toggleVars, config_loaded>>

\* pose_webcam.py ends by itself
DetectionExits ==
    /\ detection_running
    /\ detection_running' = FALSE
    /\ manager_op' = Operation("detection_exits", NoCommand,
                               stored_flags(config_json), FALSE, TRUE, "none")
    /\ UNCHANGED <<config_json, plist_exists, notification>>
    /\ UNCHANGED <<now, calibVars, loopVars, monitorVars, toggleVars, config_loaded>>

NextManager ==
    \/ \E agent_outcome \in AgentOutcomes, save_outcome \in SaveOutcomes :
          ToggleAutoStart(agent_outcome, save_outcome)
    \/ \E args \in CommandLines :
       \E agent_outcome \in Outcomes(args.toggle_auto_start, AgentOutcomes),
          save_toggle \in Outcomes(args.toggle_auto_start \/ args.toggle_monitor,
                                   SaveOutcomes),
          save_camera \in Outcomes(args.camera # NoCamera, SaveOutcomes),
          launch_outcome \in Outcomes(args.start, LaunchOutcomes) :
          Main(args, agent_outcome, save_toggle, save_camera, launch_outcome)
    \/ \E run_outcome \in RunOutcomes, launch_outcome \in LaunchOutcomes :
          StartDetection(run_outcome, launch_outcome)
    \/ DetectionExits

SpecManager == InitManager /\ [][NextManager]_vars

-----------------------------------------------------------------------------
(* load_config of config_manager.py and of pose_webcam.py, called in front   *)
(* of each of the config.json files                                          *)

InitConfig ==
    /\ now = Epoch
    /\ calibration_file = [state |-> "absent", data |-> <<>>]
    /\ good_examples = <<>>
    /\ bad_examples = <<>>
    /\ personalized_thresholds = DefaultThresholds
    /\ calib_result = FALSE
    /\ calib_op = "init"
    /\ LoopNotStarted
    /\ MonitorNotStarted
    /\ config_json \in LoadableConfigFiles
    /\ plist_exists = FALSE
    /\ detection_running = FALSE
    /\ notification = "none"
    /\ manager_op = Operation("none", NoCommand, stored_flags(NoConfigFile),
                              FALSE, TRUE, "none")
    /\ config_loaded = NotLoaded
    /\ ToggleNotStarted

\* a call of load_config of the module
LoadConfig(module) ==
    /\ config_loaded' =
          [module |-> module,
           result |-> IF module = "config_manager"
                      THEN load_config_result(DEFAULT_CONFIG, config_json)
                      ELSE pw_load_config(config_json)]
    /\ UNCHANGED <<config_json, plist_exists, detection_running, notification,
                   manager_op>>
    /\ UNCHANGED <<now, calibVars, loopVars, monitorVars, toggleVars>>

NextConfig == \E module \in ConfigModules : LoadConfig(module)

SpecConfig == InitConfig /\ [][NextConfig]_vars

-----------------------------------------------------------------------------
(* The toggle-file handshake between toggle_camera_window of the menu bar   *)
(* and the toggle section of run_normal_mode, step by step                  *)

\* the variables of run_normal_mode the handshake does not touch
loopRest == <<config, frame_count, voice_busy, last_voice_time,
              bad_posture_start_time, last_announcement_time,
              sitting_start_time, sitting_alerted, last_pose_time, sitting_elapsed,
              posture_status, loop_step, pose_landmarks, frame,
              bad_run_start, bad_run_reached, bad_run_announced, stand_up_asked>>

\* menu bar: open(toggle_file, 'w'), write
MenuWrite ==
    /\ menu_pc \in {"idle", "returned"}
    /\ requests < MaxRequests
    /\ requests' = requests + 1
    /\ toggle_window_txt' = TRUE
    /\ menu_pc' = "written"
    /\ menu_returned' = "none"
    /\ UNCHANGED <<toggle_pc, seen_request, toggled_for, window_should_be_visible>>
    /\ UNCHANGED <<now, calibVars, loopRest, monitorVars, managerVars>>

\* menu bar, after time.sleep(0.1): os.path.exists(toggle_file)
MenuCheck ==
    /\ menu_pc = "written"
    /\ IF toggle_window_txt
       THEN /\ menu_pc' = "found"
            /\ UNCHANGED menu_returned
       ELSE /\ menu_pc' = "returned"
            /\ menu_returned' = "True"
    /\ UNCHANGED <<toggle_pc, requests, seen_request, toggled_for,
                   window_should_be_visible, toggle_window_txt>>
    /\ UNCHANGED <<now, calibVars, loopRest, monitorVars, managerVars>>

\* menu bar: os.remove(toggle_file), any exception ignored; return False
MenuRemove ==
    /\ menu_pc = "found"
    /\ toggle_window_txt' = FALSE
    /\ menu_pc' = "returned"
    /\ menu_returned' = "False"
    /\ UNCHANGED <<toggle_pc, requests, seen_request, toggled_for,
                   window_should_be_visible>>
    /\ UNCHANGED <<now, calibVars, loopRest, monitorVars, managerVars>>

\* detection loop: os.path.exists("toggle_window.txt") finds the file
LoopExists ==
    /\ loop_step # "off"
    /\ toggle_pc = "idle"
    /\ toggle_window_txt
    /\ toggle_pc' = "seen"
    /\ seen_request' = requests
    /\ UNCHANGED <<menu_pc, menu_returned, requests, toggled_for,
                   window_should_be_visible, toggle_window_txt>>
    /\ UNCHANGED <<now, calibVars, loopRest, monitorVars, managerVars>>

\* detection loop: toggle_camera_window flips window_should_be_visible
LoopToggle ==
    /\ toggle_pc = "seen"
    /\ window_should_be_visible' = ~window_should_be_visible
    /\ toggled_for' = toggled_for \cup {seen_request}
    /\ toggle_pc' = "toggled"
    /\ UNCHANGED <<menu_pc, menu_returned, requests, seen_request,
                   toggle_window_txt>>
    /\ UNCHANGED <<now, calibVars, loopRest, monitorVars, managerVars>>

\* detection loop: os.remove("toggle_window.txt"); the FileNotFoundError of
\* a file already removed is swallowed by the except clause
LoopRemove ==
    /\ toggle_pc = "toggled"
    /\ toggle_window_txt' = FALSE
    /\ toggle_pc' = "idle"
    /\ UNCHANGED <<menu_pc, menu_returned, requests, seen_request, toggled_for,
                   window_should_be_visible>>
    /\ UNCHANGED <<now, calibVars, loopRest, monitorVars, managerVars>>

NextToggle ==
    \/ MenuWrite
    \/ MenuCheck
    \/ MenuRemove
    \/ LoopExists
    \/ LoopToggle
    \/ LoopRemove

SpecToggle == InitLoop /\ [][NextToggle]_vars

-----------------------------------------------------------------------------
(* Properties of the detection loop *)

\* C1, as stated: at the first frame at which an unbroken run of bad-posture
\* frames has lasted bad_posture_duration_threshold, 'Please sit up straight!'
\* is played by safe_speak (a speech engine that raises is not held against
\* the statement)
C1_AlertPlayedAtThreshold ==
    frame.first_reach => (frame.posture_played \/ frame.posture_raised)

\* C1, amended: at the first frame at which an unbroken run of bad-posture
\* frames has lasted bad_posture_duration_threshold, safe_speak is called
\* with 'Please sit up straight!', and the announcement is played exactly
\* when the last played announcement started at least 2.0 s before the call
\* and the speech engine does not raise
C1_AlertRequestedAtThreshold ==
    frame.first_reach =>
        /\ frame.posture_called
        /\ frame.posture_played <=>
              (frame.since_voice >= 2 * TicksPerSecond /\ ~frame.posture_raised)

\* a run of bad posture reaches the threshold and the announcement is played
C1_AlertPlayed ==
    /\ loop_step = "processed"
    /\ frame.first_reach
    /\ frame.posture_played

\* C2: whenever the sitting timer has reached sitting_duration_threshold, the
\* user got a 'stand up' alert for the sitting period the timer measures; the
\* alert is taken in its weakest sense, safe_speak having been called with
\* 'stand up' since the timer started
C2_StandUpAlertEverySittingPeriod ==
    (/\ loop_step = "processed"
     /\ sitting_start_time # NoTime
     /\ sitting_elapsed >= config.sitting_duration_threshold)
        => stand_up_asked

\* C3: a frame with a pose is treated as bad by run_normal_mode (bad_reasons
\* is non-empty) for exactly the landmarks and thresholds for which
\* is_bad_pose is true, and that is exactly when the average shoulder y minus
\* the nose y is below head_height_threshold or the nose y is above
\* nose_height_threshold
C3_BadPoseIffBadReasons ==
    (loop_step = "processed" /\ frame.pose) =>
        LET two_avg_shoulder_y ==
                RAdd(pose_landmarks.LEFT_SHOULDER, pose_landmarks.RIGHT_SHOULDER)
            two_nose_y == RAdd(pose_landmarks.NOSE, pose_landmarks.NOSE)
            head == personalized_thresholds.head_height_threshold
            stated ==
                \/ RLess(RSub(two_avg_shoulder_y, two_nose_y), RAdd(head, head))
                \/ RLess(personalized_thresholds.nose_height_threshold,
                         pose_landmarks.NOSE)
        IN  /\ frame.is_bad_pose <=> stated
            /\ (frame.bad_reasons # <<>>) <=> frame.is_bad_pose

\* a frame that is bad for its nose height alone
C3_NoseOnlyBadFrame ==
    /\ loop_step = "processed"
    /\ frame.pose
    /\ frame.bad_reasons = <<"nose too low">>
    /\ frame.is_bad_pose

-----------------------------------------------------------------------------
(* Properties of the calibrator *)

\* x is the midpoint of a and b, and lies between them
IsMidpointBetween(x, a, b) ==
    /\ RAdd(x, x) = RAdd(a, b)
    /\ ~RLess(x, a) \/ ~RLess(x, b)
    /\ ~RLess(a, x) \/ ~RLess(b, x)

\* C4: with at least 3 good and at least 3 bad examples,
\* calculate_personalized_thresholds returns True and sets each threshold to
\* the midpoint of the good mean and the bad mean of its measurement, a value
\* that lies between the two means
C4_ThresholdsAreMidpoints ==
    (calib_op = "calculate" /\ Len(good_examples) >= 3 /\ Len(bad_examples) >= 3)
        => /\ calib_result = TRUE
           /\ DOMAIN personalized_thresholds =
                 {"head_height_threshold", "nose_height_threshold"}
           /\ IsMidpointBetween(personalized_thresholds.head_height_threshold,
                                np_mean(HeadHeights(good_examples)),
                                np_mean(HeadHeights(bad_examples)))
           /\ IsMidpointBetween(personalized_thresholds.nose_height_threshold,
                                np_mean(NoseHeights(good_examples)),
                                np_mean(NoseHeights(bad_examples)))

\* thresholds calculated from examples whose good and bad means differ
C4_CalculatedFromDistinctMeans ==
    /\ calib_op = "calculate"
    /\ Len(good_examples) >= 3
    /\ Len(bad_examples) >= 3
    /\ calib_result = TRUE
    /\ np_mean(HeadHeights(good_examples)) # np_mean(HeadHeights(bad_examples))
    /\ np_mean(NoseHeights(good_examples)) # np_mean(NoseHeights(bad_examples))

\* C5: after a save_calibration that succeeds, a new PostureCalibrator on the
\* same file holds the good examples, the bad examples and the thresholds of
\* the calibrator that saved
C5_SaveLoadRoundTrip ==
    calib_op = "saved" =>
        PostureCalibrator(calibration_file) =
            Calibrator(good_examples, bad_examples, personalized_thresholds)

\* a saved calibrator with examples of both kinds and calculated thresholds
C5_SavedCalculatedCalibration ==
    /\ calib_op = "saved"
    /\ Len(good_examples) >= 3
    /\ Len(bad_examples) >= 3
    /\ personalized_thresholds # DefaultThresholds

-----------------------------------------------------------------------------
(* Properties of the monitor detector *)

\* C6: at the end of every iteration of the monitoring loop in which
\* monitor_on is False, no child started by the detector is running
C6_NoChildWhileMonitorOff ==
    (detector_pc = "loop" /\ iteration.done /\ ~monitor_on)
        => alive = {}

\* an iteration that saw the monitor go off while the child was running, and
\* had to kill the child
C6_ChildKilledAtMonitorOff ==
    /\ detector_pc = "loop"
    /\ iteration.done
    /\ ~monitor_on
    /\ iteration.child_running
    /\ iteration.stopped = "killed"

\* C7: whenever the monitor is on and no child is running at a poll, the
\* iteration of that poll attempts a start (an iteration cut short by an
\* exception of is_monitor_on is not held against the statement)
C7_StartAttemptedWhenNoChild ==
    (/\ detector_pc = "loop"
     /\ iteration.done
     /\ ~iteration.raised
     /\ iteration.polled
     /\ ~iteration.child_running)
        => iteration.start_attempted

-----------------------------------------------------------------------------
(* Properties of the configuration manager and the menu bar *)

\* C8: after every call of toggle_auto_start the stored auto_start_enabled is
\* the negation of the value stored before the call, and the LaunchAgent
\* plist exists exactly if the stored value is true, also when creating the
\* plist or saving the config fails
C8_AutoStartToggledWithPlist ==
    manager_op.op = "toggle_auto_start" =>
        /\ stored_flags(config_json).auto_start_enabled
              = ~manager_op.before.auto_start_enabled
        /\ plist_exists <=> stored_flags(config_json).auto_start_enabled

\* C9: after a run of main with --camera N and one or both toggles, in which
\* nothing raised and every save succeeded, config.json holds camera_index N
\* and each toggled flag negated
C9_EveryFlagTakesEffect ==
    (/\ manager_op.op = "main"
     /\ manager_op.args.camera # NoCamera
     /\ manager_op.args.toggle_auto_start \/ manager_op.args.toggle_monitor
     /\ ~manager_op.raised
     /\ manager_op.saved)
        => /\ config_json.state = "valid"
           /\ load_config(config_json).camera_index = manager_op.args.camera
           /\ manager_op.args.toggle_auto_start =>
                 stored_flags(config_json).auto_start_enabled
                    = ~manager_op.before.auto_start_enabled
           /\ manager_op.args.toggle_monitor =>
                 stored_flags(config_json).monitor_detection_enabled
                    = ~manager_op.before.monitor_detection_enabled

\* C10: after start_detection, 'Posture Detection Started' is shown only if
\* posture detection is running, and the error notification is shown
\* whenever config_manager.start_posture_detection returned False
C10_StartNotificationTruthful ==
    manager_op.op = "start_detection" =>
        /\ notification = "Posture Detection Started" => detection_running
        /\ manager_op.start_ret = "False" => notification = "Error"

-----------------------------------------------------------------------------
(* Further properties of the detection loop *)

\* C11: an iteration in which monitor detection is enabled and the user is
\* idle processes no frame, emits no announcement and leaves every alert and
\* sitting-timer variable as it was
C11_IdleIterationChangesNothing ==
    [][(config.monitor_detection_enabled /\ loop_step' = "idle") =>
          /\ UNCHANGED <<voice_busy, last_voice_time, bad_posture_start_time,
                         last_announcement_time, sitting_start_time,
                         sitting_alerted, last_pose_time, sitting_elapsed>>
          /\ UNCHANGED <<frame, pose_landmarks, posture_status>>]_vars

\* the user goes idle in the middle of a sitting period and of a bad-posture
\* episode
C11_IdleWhileSittingBadly ==
    /\ loop_step = "idle"
    /\ config.monitor_detection_enabled
    /\ sitting_start_time # NoTime
    /\ bad_posture_start_time # NoTime

\* C16: bad_posture_start_time is the time of the first frame of the unbroken
\* run of bad-posture frames the loop is in (None after a frame with good
\* posture or no pose), and safe_speak is called with 'Please sit up
\* straight!' only in a frame with bad posture of a run that has lasted
\* bad_posture_duration_threshold
C16_NoPrematureAlert ==
    /\ bad_posture_start_time = bad_run_start
    /\ frame.bad_reasons = <<>> => bad_posture_start_time = NoTime
    /\ frame.posture_called => (frame.bad_reasons # <<>> /\ bad_run_reached)

\* an alert is requested in a run of bad posture that began some time after
\* the loop started
C16_AlertAfterEarlierFrames ==
    /\ loop_step = "processed"
    /\ frame.posture_called
    /\ bad_posture_start_time > Epoch

\* C17: in a frame with bad posture that follows an announcement request of
\* the same unbroken run of bad-posture frames, safe_speak is called with
\* 'Please sit up straight!' exactly if announcement_interval has passed
\* since that request; a request that follows no request of the run is the
\* initial alert, in the first frame at which the run has lasted
\* bad_posture_duration_threshold
C17_RepeatAtIntervalOnly ==
    [][(loop_step' = "processed" /\ frame_count' # frame_count) =>
          /\ (frame'.bad_reasons # <<>> /\ bad_run_announced # NoTime) =>
                (frame'.posture_called <=>
                    frame'.time - bad_run_announced >= config.announcement_interval)
          /\ (frame'.posture_called /\ bad_run_announced = NoTime) =>
                frame'.first_reach]_vars

\* a repeat announcement is requested
C17_RepeatRequested ==
    /\ loop_step = "processed"
    /\ frame.posture_called
    /\ ~frame.first_reach
    /\ bad_run_announced = frame.time

\* C18: sitting_alerted goes from True to False only in a processed frame
\* without a pose that comes more than 30 s after the last frame with a pose,
\* and a frame calls safe_speak with 'stand up' only while sitting_alerted is
\* False and leaves it True, so that there is at most one 'stand up' alert
\* between two resets
C18_StandUpAlertOncePerAbsence ==
    [][/\ (sitting_alerted /\ ~sitting_alerted') =>
             /\ loop_step' = "processed" /\ frame_count' # frame_count
             /\ ~frame'.pose
             /\ last_pose_time # NoTime
             /\ frame'.time - last_pose_time > 30 * TicksPerSecond
       /\ (/\ loop_step' = "processed" /\ frame_count' # frame_count
           /\ frame'.stand_up_called) =>
             (~sitting_alerted /\ sitting_alerted')]_vars

\* a frame without a pose, more than 30 s after the last pose, resets
\* sitting_alerted after a 'stand up' alert
C18_AlertResetAfterAbsence ==
    /\ loop_step = "processed"
    /\ frame.sitting_alert_reset
    /\ ~sitting_alerted

\* C19: a processed frame with a pose starts the sitting timer at the time
\* of the frame if it is not running and keeps it otherwise; a frame without
\* a pose keeps the timer if it comes at most 3 s after the last frame with a
\* pose (or no pose was seen yet), and otherwise pauses it:
\* sitting_start_time is None and sitting_elapsed is 0
C19_SittingTimerFollowsPose ==
    [][(loop_step' = "processed" /\ frame_count' # frame_count) =>
          /\ frame'.pose =>
                /\ last_pose_time' = frame'.time
                /\ sitting_start_time' =
                      (IF sitting_start_time = NoTime THEN frame'.time
                                                      ELSE sitting_start_time)
          /\ ~frame'.pose =>
                /\ last_pose_time' = last_pose_time
                /\ IF /\ last_pose_time # NoTime
                      /\ frame'.time - last_pose_time > 3 * TicksPerSecond
                   THEN /\ sitting_start_time' = NoTime
                        /\ sitting_elapsed' = 0
                   ELSE sitting_start_time' = sitting_start_time]_vars

\* a frame without a pose, more than 3 s after the last pose, has paused the
\* timer
C19_TimerPausedAfterAbsence ==
    /\ loop_step = "processed"
    /\ ~frame.pose
    /\ last_pose_time # NoTime
    /\ frame.time - last_pose_time > 3 * TicksPerSecond
    /\ sitting_start_time = NoTime

-----------------------------------------------------------------------------
(* Further properties of the monitor detector *)

\* C12: when the detector has exited on SIGINT or SIGTERM, no child it
\* started is still running, at whatever point of run the signal arrived
C12_NoChildAfterShutdown ==
    detector_pc = "exited" => alive = {}

\* C14: the detector never has two children alive at once, and a step
\* spawns a child only when posture_process is None or refers to a child
\* that has exited
C14_AtMostOneChild ==
    [][/\ Cardinality(alive') <= 1
       /\ alive' \ alive # {} => posture_process \notin alive]_vars

\* a child spawned after an earlier child was stopped or has exited
C14_ChildSpawnedAgain ==
    /\ next_pid >= 2
    /\ posture_process = next_pid
    /\ alive = {next_pid}

\* C15: is_monitor_on never raises: neither the initial check of run() nor
\* the check of an iteration of the loop ends with an exception
C15_MonitorCheckNeverRaises ==
    /\ detector_pc # "crashed"
    /\ ~iteration.raised

-----------------------------------------------------------------------------
(* Properties of load_config *)

\* C20: load_config of either module returns a configuration with every key
\* of the module's DEFAULT_CONFIG, a key of the file with the file's value
\* and a missing key with the default, and the defaults when config.json is
\* missing, unreadable or not a JSON object
C20_LoadConfigReturnsEveryKey ==
    config_loaded.module # "none" =>
        LET defaults == IF config_loaded.module = "config_manager"
                        THEN DEFAULT_CONFIG ELSE PW_DEFAULT_CONFIG
            result == config_loaded.result
        IN  /\ result.kind = "dict"
            /\ DOMAIN defaults \subseteq DOMAIN result.value
            /\ \A key \in DOMAIN defaults :
                  result.value[key] =
                     IF config_json.state = "valid" /\ key \in DOMAIN config_json.data
                     THEN config_json.data[key]
                     ELSE defaults[key]
            /\ config_json.state # "valid" => result.value = defaults

-----------------------------------------------------------------------------
(* Properties of the toggle-file handshake *)

\* C13: when toggle_camera_window of the menu bar has returned, it returned
\* True exactly if the detection loop toggled the window for that request,
\* and if it returned False the window was not toggled for that request
C13_HandshakeTruthful ==
    menu_pc = "returned" =>
        /\ menu_returned = "True" <=> requests \in toggled_for
        /\ menu_returned = "False" => requests \notin toggled_for

====
